---- MODULE Spec2Model ----
(***************************************************************************)
(* housecarl: the Room CRUD API (server/app/main.py) over the room table   *)
(* (server/app/db.py, SQLite).  A room name is a sequence of characters;   *)
(* an optional value is a sequence of length 0 (None) or 1 (the value).    *)
(***************************************************************************)
EXTENDS Integers, Sequences, FiniteSets, TLC

\* ---------------------------------------------------------------- bounds --
MaxNameLen == 2
MaxCreates == 3

\* ------------------------------------------------------------- constants --
MissingId == 999

Chars == {" ", "a"}
Whitespace == {" "}

Names == UNION {[1..n -> Chars] : n \in 0..MaxNameLen}

None == <<>>
Some(v) == <<v>>

RequestIds == (1..MaxCreates) \cup {MissingId}

\* ------------------------------------------------------- request models --
\* CreateRoomRequest: name is a required str; a body without it (or with
\* null) is represented by None and rejected by the request model.
CreateRoomRequest == [name : {None} \cup {Some(n) : n \in Names}]

\* UpdateRoomRequest: name is str | None with default None; fields_set is
\* pydantic's model_fields_set (the fields the body carried).
UpdateRoomRequest ==
    {[name |-> None, fields_set |-> {}]}
        \cup [name : {None} \cup {Some(n) : n \in Names}, fields_set : {{"name"}}]

RoomDetails(id, name) == [id |-> id, name |-> name]

Result(status, body, table) == [status |-> status, body |-> body, rooms |-> table]

\* ------------------------------------------------------------ validation --
RECURSIVE lstrip(_)
lstrip(s) == IF s # <<>> /\ Head(s) \in Whitespace THEN lstrip(Tail(s)) ELSE s

RECURSIVE rstrip(_)
rstrip(s) ==
    IF s # <<>> /\ s[Len(s)] \in Whitespace THEN rstrip(SubSeq(s, 1, Len(s) - 1)) ELSE s

strip(s) == rstrip(lstrip(s))

is_empty_or_whitespace_NoStrip(s) == s = <<>>

is_empty_or_whitespace(s) == strip(s) = <<>>

\* ------------------------------------------------------------ room store --
\* The room table is a function from the persisted ids to their names.
SetMax(S) == CHOOSE m \in S : \A x \in S : x <= m

SetMin(S) == CHOOSE m \in S : \A x \in S : m <= x

\* id is INTEGER PRIMARY KEY without AUTOINCREMENT: the rowid of a new row
\* is one more than the largest rowid in the table.
NextRowid_FirstFree(t) == SetMin({i \in 1..(Cardinality(DOMAIN t) + 1) : i \notin DOMAIN t})

NextRowid(t) == IF DOMAIN t = {} THEN 1 ELSE SetMax(DOMAIN t) + 1

\* unique=True on name: the names of the rows other than `id`.
OtherNames(t, id) == {t[i] : i \in DOMAIN t \ {id}}

\* A column of type str is NOT NULL; name carries a unique index.
Violates(t, id, name) == name = None \/ name[1] \in OtherNames(t, id)

Put(t, id, name) == [i \in DOMAIN t \cup {id} |-> IF i = id THEN name ELSE t[i]]

Remove(t, id) == [i \in DOMAIN t \ {id} |-> t[i]]

\* SELECT room.id, room.name FROM room: a scan of the table in rowid order.
RECURSIVE ScanRowids(_)
ScanRowids(S) ==
    IF S = {} THEN <<>> ELSE <<SetMin(S)>> \o ScanRowids(S \ {SetMin(S)})

\* ------------------------------------------------------------ handlers ----
read_rooms(t) ==
    LET ids == ScanRowids(DOMAIN t)
    IN  Result(200, [k \in 1..Len(ids) |-> RoomDetails(ids[k], t[ids[k]])], t)

read_room(t, room_id) ==
    IF room_id \notin DOMAIN t
    THEN Result(404, <<>>, t)
    ELSE Result(200, <<RoomDetails(room_id, t[room_id])>>, t)

create_room_Stripped(t, room) ==
    IF room.name = None
    THEN Result(422, <<>>, t)
    ELSE IF is_empty_or_whitespace(room.name[1])
    THEN Result(422, <<>>, t)
    ELSE IF Violates(t, NextRowid(t), Some(strip(room.name[1])))
    THEN Result(500, <<>>, t)
    ELSE Result(201, <<RoomDetails(NextRowid(t), strip(room.name[1]))>>,
                Put(t, NextRowid(t), strip(room.name[1])))

create_room(t, room) ==
    IF room.name = None
    THEN Result(422, <<>>, t)
    ELSE IF is_empty_or_whitespace(room.name[1])
    THEN Result(422, <<>>, t)
    ELSE IF Violates(t, NextRowid(t), room.name)
    THEN Result(500, <<>>, t)
    ELSE Result(201, <<RoomDetails(NextRowid(t), room.name[1])>>,
                Put(t, NextRowid(t), room.name[1]))

model_dump(room) == [f \in room.fields_set |-> room.name]

sqlmodel_update_Ignored(row, patch) == row

sqlmodel_update(row, patch) ==
    IF "name" \in DOMAIN patch THEN [row EXCEPT !.name = patch["name"]] ELSE row

update_room_NoValidation(t, room_id, room) ==
    IF room_id \notin DOMAIN t
    THEN Result(404, <<>>, t)
    ELSE LET room_patch == model_dump(room)
             room_db == sqlmodel_update([id |-> room_id, name |-> Some(t[room_id])],
                                        room_patch)
         IN  IF Violates(t, room_db.id, room_db.name)
             THEN Result(500, <<>>, t)
             ELSE Result(204, <<>>, Put(t, room_db.id, room_db.name[1]))

update_room_ValidateFirst(t, room_id, room) ==
    IF room.name # None /\ is_empty_or_whitespace(room.name[1])
    THEN Result(422, <<>>, t)
    ELSE IF room_id \notin DOMAIN t
    THEN Result(404, <<>>, t)
    ELSE LET room_patch == model_dump(room)
             room_db == sqlmodel_update([id |-> room_id, name |-> Some(t[room_id])],
                                        room_patch)
         IN  IF Violates(t, room_db.id, room_db.name)
             THEN Result(500, <<>>, t)
             ELSE Result(204, <<>>, Put(t, room_db.id, room_db.name[1]))

update_room(t, room_id, room) ==
    IF room_id \notin DOMAIN t
    THEN Result(404, <<>>, t)
    ELSE IF room.name # None /\ is_empty_or_whitespace(room.name[1])
    THEN Result(422, <<>>, t)
    ELSE LET room_patch == model_dump(room)
             room_db == sqlmodel_update([id |-> room_id, name |-> Some(t[room_id])],
                                        room_patch)
         IN  IF Violates(t, room_db.id, room_db.name)
             THEN Result(500, <<>>, t)
             ELSE Result(204, <<>>, Put(t, room_db.id, room_db.name[1]))

delete_room_NoCommit(t, room_id) ==
    IF room_id \notin DOMAIN t
    THEN Result(404, <<>>, t)
    ELSE Result(204, <<>>, t)

delete_room(t, room_id) ==
    IF room_id \notin DOMAIN t
    THEN Result(404, <<>>, t)
    ELSE Result(204, <<>>, Remove(t, room_id))

\* ----------------------------------------------------------------- state --
VARIABLES
    rooms,      \* the room table
    created,    \* per persisted id: the ordinal of the Create that made it
    clock,      \* number of successful Creates so far
    assigned,   \* ids handed out by successful Creates so far
    last        \* the last request and its response

vars == <<rooms, created, clock, assigned, last>>

NoRequest == [op |-> "none", room_id |-> 0, name |-> None, fields_set |-> {},
              status |-> 0, body |-> <<>>]

Exchange(op, room_id, name, fields_set, res) ==
    [op |-> op, room_id |-> room_id, name |-> name, fields_set |-> fields_set,
     status |-> res.status, body |-> res.body]

Init ==
    /\ rooms = <<>>
    /\ created = <<>>
    /\ clock = 0
    /\ assigned = {}
    /\ last = NoRequest

ReadRooms ==
    /\ last' = Exchange("list", 0, None, {}, read_rooms(rooms))
    /\ UNCHANGED <<rooms, created, clock, assigned>>

ReadRoom ==
    \E room_id \in RequestIds :
        /\ last' = Exchange("get", room_id, None, {}, read_room(rooms, room_id))
        /\ UNCHANGED <<rooms, created, clock, assigned>>

CreateRoom ==
    \E room \in CreateRoomRequest :
        LET res == create_room(rooms, room)
        IN  /\ res.status = 201 => clock < MaxCreates
            /\ rooms' = res.rooms
            /\ last' = Exchange("create", 0, room.name, {"name"}, res)
            /\ IF res.status = 201
               THEN /\ clock' = clock + 1
                    /\ assigned' = assigned \cup {res.body[1].id}
                    /\ created' = [i \in DOMAIN res.rooms |->
                                      IF i = res.body[1].id THEN clock + 1 ELSE created[i]]
               ELSE UNCHANGED <<created, clock, assigned>>

UpdateRoom ==
    \E room_id \in RequestIds, room \in UpdateRoomRequest :
        LET res == update_room(rooms, room_id, room)
        IN  /\ rooms' = res.rooms
            /\ last' = Exchange("update", room_id, room.name, room.fields_set, res)
            /\ UNCHANGED <<created, clock, assigned>>

DeleteRoom ==
    \E room_id \in RequestIds :
        LET res == delete_room(rooms, room_id)
        IN  /\ rooms' = res.rooms
            /\ last' = Exchange("delete", room_id, None, {}, res)
            /\ created' = [i \in DOMAIN res.rooms |-> created[i]]
            /\ UNCHANGED <<clock, assigned>>

Next == ReadRooms \/ ReadRoom \/ CreateRoom \/ UpdateRoom \/ DeleteRoom

Spec == Init /\ [][Next]_vars

\* ------------------------------------------------------------ properties --
\* A name is blank when every character of it is whitespace (so it is empty
\* once trimmed).
Blank(s) == \A k \in 1..Len(s) : s[k] \in Whitespace

UsedNames(t) == {t[i] : i \in DOMAIN t}

\* The step is a request of kind `op` (every request rewrites `last`).
IsRequest(op) == last'.op = op

SameStore == rooms' = rooms

\* C1: Create Room with a name that is not blank and not used by a persisted
\* Room answers 201 with a Room {id, name} whose name is exactly the given
\* name and whose id is not the id of a Room persisted before the call; a
\* Get Room on that id right afterwards answers 200 with the same Room.
C1_CreateThenGet ==
    [][ /\ ( /\ IsRequest("create")
             /\ last'.name # None
             /\ ~Blank(last'.name[1])
             /\ last'.name[1] \notin UsedNames(rooms) )
           => /\ last'.status = 201
              /\ Len(last'.body) = 1
              /\ last'.body[1].name = last'.name[1]
              /\ last'.body[1].id \notin DOMAIN rooms
              /\ read_room(rooms', last'.body[1].id).status = 200
              /\ read_room(rooms', last'.body[1].id).body = last'.body
        /\ ( /\ last.op = "create" /\ last.status = 201
             /\ IsRequest("get")
             /\ last'.room_id = last.body[1].id )
           => /\ last'.status = 200
              /\ last'.body = last.body
      ]_vars

C1_Witness ==
    /\ last.op = "create"
    /\ last.status = 201
    /\ last.name = Some(<<" ", "a">>)
    /\ last.body = <<RoomDetails(last.body[1].id, <<" ", "a">>)>>
    /\ Cardinality(DOMAIN rooms) >= 2

\* C2: Create Room or Update Room with a non-blank name that is already the
\* name of another persisted Room answers 409 and leaves the persisted Rooms
\* as they were.
C2_ConflictIs409 ==
    [][ ( \/ /\ IsRequest("create")
             /\ last'.name # None
             /\ ~Blank(last'.name[1])
             /\ last'.name[1] \in UsedNames(rooms)
          \/ /\ IsRequest("update")
             /\ last'.room_id \in DOMAIN rooms
             /\ last'.name # None
             /\ ~Blank(last'.name[1])
             /\ \E i \in DOMAIN rooms \ {last'.room_id} : rooms[i] = last'.name[1] )
        => (last'.status = 409 /\ SameStore)
      ]_vars

\* C3: in every reachable state every persisted Room has a name that is not
\* blank, and no two persisted Rooms have the same name.
C3_NamesValidAndUnique ==
    /\ \A i \in DOMAIN rooms : ~Blank(rooms[i])
    /\ \A i, j \in DOMAIN rooms : i # j => rooms[i] # rooms[j]

C3_Witness ==
    /\ Cardinality(DOMAIN rooms) >= 2
    /\ last.op = "update"
    /\ last.status = 422
    /\ last.room_id \in DOMAIN rooms

\* C4: an id handed out by a successful Create is never handed out again by
\* a later Create, also when the Room that held it was deleted in between.
C4_IdNeverReused ==
    [][ (IsRequest("create") /\ last'.status = 201)
        => last'.body[1].id \notin assigned
      ]_vars

\* C5: Create Room with a blank name, and Update Room on an existing id with
\* a provided blank name, answer 422 and leave the persisted Rooms as they
\* were.
C5_BlankNameIs422 ==
    [][ ( \/ /\ IsRequest("create")
             /\ last'.name # None
             /\ Blank(last'.name[1])
          \/ /\ IsRequest("update")
             /\ last'.room_id \in DOMAIN rooms
             /\ last'.name # None
             /\ Blank(last'.name[1]) )
        => (last'.status = 422 /\ SameStore)
      ]_vars

C5_Witness ==
    /\ last.op = "update"
    /\ last.room_id \in DOMAIN rooms
    /\ last.name = Some(<<" ", " ">>)
    /\ last.status = 422

\* C6: Update Room on an existing id with no name (None, or omitted from the
\* request) answers 204 and leaves every persisted Room as it was.
C6_NoNameIsNoOp ==
    [][ ( /\ IsRequest("update")
          /\ last'.room_id \in DOMAIN rooms
          /\ last'.name = None )
        => (last'.status = 204 /\ SameStore)
      ]_vars

\* C7: Get Room, Update Room and Delete Room on an id with no persisted Room
\* answer 404 and leave the store as it was; for Update whatever name the
\* request carries.
C7_MissingIdIs404 ==
    [][ ( /\ IsRequest("get") \/ IsRequest("update") \/ IsRequest("delete")
          /\ last'.room_id \notin DOMAIN rooms )
        => (last'.status = 404 /\ SameStore)
      ]_vars

C7_Witness ==
    /\ last.op = "update"
    /\ last.status = 404
    /\ last.name = Some(<<" ">>)
    /\ last.room_id \in assigned
    /\ rooms # <<>>

\* C8: Delete Room on an existing id answers 204 and removes that Room and
\* no other; a Get Room on the same id issued next answers 404.
C8_DeleteThenGet ==
    [][ /\ ( /\ IsRequest("delete")
             /\ last'.room_id \in DOMAIN rooms )
           => /\ last'.status = 204
              /\ DOMAIN rooms' = DOMAIN rooms \ {last'.room_id}
              /\ \A i \in DOMAIN rooms' : rooms'[i] = rooms[i]
              /\ read_room(rooms', last'.room_id).status = 404
        /\ ( /\ last.op = "delete" /\ last.status = 204
             /\ IsRequest("get")
             /\ last'.room_id = last.room_id )
           => last'.status = 404
      ]_vars

C8_Witness ==
    /\ last.op = "delete"
    /\ last.status = 204
    /\ last.room_id \notin DOMAIN rooms
    /\ Cardinality(DOMAIN rooms) >= 1
    /\ \E i \in DOMAIN rooms : i > last.room_id

\* C9: List Rooms answers 200 with exactly the persisted Rooms, each once, in
\* the order of their creation.
C9_ListInCreationOrder ==
    last.op = "list"
    => /\ last.status = 200
       /\ Len(last.body) = Cardinality(DOMAIN rooms)
       /\ \A i \in DOMAIN rooms :
              \E k \in 1..Len(last.body) : last.body[k] = RoomDetails(i, rooms[i])
       /\ \A k, m \in 1..Len(last.body) :
              k < m => created[last.body[k].id] < created[last.body[m].id]

C9_Witness ==
    /\ last.op = "list"
    /\ Len(last.body) >= 2
    /\ \E i \in DOMAIN rooms : created[i] # i
    /\ clock > Cardinality(DOMAIN rooms)

\* C10: Update Room on an existing id with a non-blank name used by no other
\* Room answers 204 and changes only that Room's name to the given name: the
\* ids, the number of Rooms and every other Room's name stay as they were.
C10_UpdateChangesOnlyName ==
    [][ ( /\ IsRequest("update")
          /\ last'.room_id \in DOMAIN rooms
          /\ last'.name # None
          /\ ~Blank(last'.name[1])
          /\ \A i \in DOMAIN rooms \ {last'.room_id} : rooms[i] # last'.name[1] )
        => /\ last'.status = 204
           /\ DOMAIN rooms' = DOMAIN rooms
           /\ rooms'[last'.room_id] = last'.name[1]
           /\ \A i \in DOMAIN rooms \ {last'.room_id} : rooms'[i] = rooms[i]
      ]_vars

C10_Witness ==
    /\ last.op = "update"
    /\ last.status = 204
    /\ last.name = Some(<<"a", " ">>)
    /\ last.room_id \in DOMAIN rooms
    /\ rooms[last.room_id] = <<"a", " ">>
    /\ Cardinality(DOMAIN rooms) >= 2
====
